---- MODULE Spec2Model ----
(***************************************************************************)
(* State-machine model of the gravity-water fluid solver (fluid.js and its *)
(* near-duplicate variants).  Numbers are fixed point: one unit is 1/SCALE *)
(* pixel; NaN is the single non-finite value.  Float32 storage rounding is *)
(* not modelled.  The four variants of fluid.js are told apart by the      *)
(* variable `variant`:                                                     *)
(*   part_002   src/unnamed/part_002                                       *)
(*   part_000   src/unnamed/part_000  (V5, high-DPI)                       *)
(*   part_001a  src/unnamed/part_001 lines 1..442                          *)
(*   part_001b  src/unnamed/part_001 lines 443..892                        *)
(* The canvas-2D program src/gravity-water/water.js is modelled in the     *)
(* section "water.js" (variant = "water", specification SpecWater).        *)
(***************************************************************************)
EXTENDS Integers, Sequences, FiniteSets, TLC

\* ------------------------------------------------------------------ bounds
\* CONFIG.particleCount (1500 / 900 in the sources) is abstracted to
\* 0..MaxParticles, chosen once per run.
MaxParticles == 2
\* number of render() calls explored in one behaviour
MaxFrames == 2
\* number of input events (pointer, motion, resize, reset) in one behaviour
MaxEvents == 2

\* ------------------------------------------------------- number domain
SCALE == 1000
NaN == -99999999

Variants == {"part_002", "part_000", "part_001a", "part_001b"}

Abs(a) == IF a < 0 THEN -a ELSE a

\* integer quotient rounded toward zero, d > 0
Quot(n, d) == IF n >= 0 THEN n \div d ELSE -((-n) \div d)

Add(a, b) == IF a = NaN \/ b = NaN THEN NaN ELSE a + b
Sub(a, b) == IF a = NaN \/ b = NaN THEN NaN ELSE a - b
Mul(a, b) == IF a = NaN \/ b = NaN THEN NaN ELSE Quot(a * b, SCALE)
\* a / b; 0/0 (and any division by zero) is not a finite number
Div(a, b) ==
  IF a = NaN \/ b = NaN \/ b = 0 THEN NaN
  ELSE IF b > 0 THEN Quot(a * SCALE, b) ELSE -Quot(a * SCALE, -b)
\* comparisons: every comparison with NaN is false
Lt(a, b) == a # NaN /\ b # NaN /\ a < b
Gt(a, b) == a # NaN /\ b # NaN /\ a > b

\* Math.floor(v / cell), cell > 0
FloorDiv(v, cell) == IF v = NaN THEN NaN ELSE v \div cell

RECURSIVE SqrtIter(_, _, _)
SqrtIter(n, lo, hi) ==
  IF lo >= hi THEN lo
  ELSE LET mid == (lo + hi + 1) \div 2
       IN IF mid * mid <= n THEN SqrtIter(n, mid, hi) ELSE SqrtIter(n, lo, mid - 1)
\* Math.sqrt on a non-negative integer (floor), n < 2^31
Sqrt(n) == IF n = NaN THEN NaN ELSE SqrtIter(n, 0, 46340)

\* Math.sqrt(dx*dx + dy*dy) in units; exact below 30000 units per axis,
\* at 1/64 resolution above (the products must stay below 2^31)
Hypot(dx, dy) ==
  IF dx = NaN \/ dy = NaN THEN NaN
  ELSE IF Abs(dx) < 30000 /\ Abs(dy) < 30000 THEN Sqrt(dx * dx + dy * dy)
  ELSE 64 * Sqrt(Quot(dx, 64) * Quot(dx, 64) + Quot(dy, 64) * Quot(dy, 64))

\* ----------------------------------------------------------- variables
VARIABLES
  variant,        \* which fluid.js variant runs
  particleCount,  \* CONFIG.particleCount
  window,         \* [innerWidth, innerHeight, devicePixelRatio]
  width, height,  \* canvas size, NaN while undefined
  particles,      \* [x, y, vx, vy, prevX, prevY], each 0..particleCount-1 -> number
  grid,           \* cell key "gx,gy" -> sequence of particle indices
  gravity,        \* [x, y]
  pointer,        \* [x, y, down]
  isRunning,
  rafQueue,       \* number of render callbacks pending in requestAnimationFrame
  pc,             \* position inside render()/updatePhysics(), "idle" between tasks
  s,              \* substep counter of the constraint loop
  i,              \* particle index of the relaxation sweep
  pos,            \* positions last handed to the renderer
  frames,         \* render() calls so far
  events,         \* input events so far
  gridBuilds,     \* grid builds in the current updatePhysics call
  pairHits,       \* unordered pair -> pairwise displacements in the current sweep
  animationId     \* water.js: handle of the last requestAnimationFrame, 0 while undefined

vars == <<variant, particleCount, window, width, height, particles, grid,
          gravity, pointer, isRunning, rafQueue, pc, s, i, pos, frames,
          events, gridBuilds, pairHits, animationId>>

\* ------------------------------------------------------------- CONFIG
CONFIG ==
  CASE variant = "part_002" ->
         [radius |-> 12000, physRadius |-> 10000, gravityScale |-> 150,
          damping |-> 985, stiffness |-> 40, stiffnessNear |-> 100,
          restDensity |-> 4000, interactionRadius |-> 80000, subSteps |-> 3]
    [] variant = "part_000" ->
         [radius |-> 20000, physRadius |-> 15000, gravityScale |-> 180,
          damping |-> 960, stiffness |-> 20, stiffnessNear |-> 100,
          restDensity |-> 3000, interactionRadius |-> 120000, subSteps |-> 2]
    [] variant = "part_001a" ->
         [radius |-> 12000, physRadius |-> 10000, gravityScale |-> 150,
          damping |-> 985, stiffness |-> 40, stiffnessNear |-> 100,
          restDensity |-> 4000, interactionRadius |-> 80000, subSteps |-> 3]
    [] variant = "part_001b" ->
         [radius |-> 12000, physRadius |-> 10000, gravityScale |-> 150,
          damping |-> 990, stiffness |-> 80, stiffnessNear |-> 100,
          restDensity |-> 5000, interactionRadius |-> 80000, subSteps |-> 2]

GRID_SIZE == CONFIG.physRadius * 2

\* multiplier of the pointer impulse
PointerForce ==
  CASE variant = "part_002" -> 3000
    [] variant = "part_000" -> 4000
    [] variant = "part_001a" -> 4000
    [] variant = "part_001b" -> 2000

\* fraction of the height at which the initial lattice starts
InitTop ==
  CASE variant = "part_002" -> 200
    [] variant = "part_000" -> 100
    [] variant = "part_001a" -> 300
    [] variant = "part_001b" -> 200

\* the start handler returns early when the simulation already runs
StartGuarded == variant \in {"part_000", "part_001b"}

\* initWebGL registers a resize listener
HasResizeListener == variant # "part_000"

Indices == 0 .. (particleCount - 1)

\* ------------------------------------------------------ input alphabets
\* window.innerWidth / innerHeight the browser can report
Sizes == {<<100000, 80000>>, <<64000, 60000>>}
\* pointer coordinates (clientX, clientY) of a mouse or touch move
PointerPositions == {<<39000, 16000>>}
\* accelerationIncludingGravity readings of a devicemotion event
Accs == {<<-9800, 0>>}
\* outcomes of the Math.random() calls of one initParticles run
Jitters == {0, 1}

\* (Math.random()-0.5)*5 for particle k, both axes, in [-2.5, 2.5)
JitterOf(jit, k) ==
  IF jit = 0 THEN [vx |-> 0, vy |-> 0]
  ELSE IF k % 2 = 0 THEN [vx |-> 1200, vy |-> 2400]
  ELSE [vx |-> -700, vy |-> -2400]

\* ------------------------------------------------------- initParticles
\* initParticles allocating a full cols x cols lattice instead of filling
\* the existing arrays
InitParticlesArrays_Square(w, h, jit) ==
  LET cols == Sqrt(particleCount)
      spacing == Mul(CONFIG.physRadius, 2200)
      startX == Div(Sub(w, cols * spacing), 2 * SCALE)
      top == Mul(h, InitTop)
      Lattice == 0 .. (cols * cols - 1)
      X == [k \in Lattice |-> Add(startX, (k % cols) * spacing)]
      Y == [k \in Lattice |-> Add(top, (k \div cols) * spacing)]
  IN [x |-> X, y |-> Y,
      vx |-> [k \in Lattice |-> JitterOf(jit, k).vx],
      vy |-> [k \in Lattice |-> JitterOf(jit, k).vy],
      prevX |-> X, prevY |-> Y]

\* initParticles with the row computed as i/cols, Math.floor forgotten
InitParticlesArrays_NoFloor(w, h, jit) ==
  LET cols == Sqrt(particleCount)
      spacing == Mul(CONFIG.physRadius, 2200)
      base == IF variant = "part_000"
              THEN (IF w = NaN THEN NaN ELSE Quot(w, window.devicePixelRatio))
              ELSE w
      startX == Div(Sub(base, cols * spacing), 2 * SCALE)
      top == Mul(h, InitTop)
      X == [k \in Indices |-> Add(startX, (k % cols) * spacing)]
      Y == [k \in Indices |-> Add(top, Quot(k * spacing, cols))]
  IN [x |-> X, y |-> Y,
      vx |-> [k \in Indices |->
                IF variant = "part_000" THEN 0 ELSE JitterOf(jit, k).vx],
      vy |-> [k \in Indices |->
                IF variant = "part_000" THEN 0 ELSE JitterOf(jit, k).vy],
      prevX |-> X, prevY |-> Y]

\* the six arrays after initParticles ran with canvas size w x h
InitParticlesArrays(w, h, jit) ==
  LET cols == Sqrt(particleCount)
      spacing == Mul(CONFIG.physRadius, 2200)
      base == IF variant = "part_000"
              THEN (IF w = NaN THEN NaN ELSE Quot(w, window.devicePixelRatio))
              ELSE w
      startX == Div(Sub(base, cols * spacing), 2 * SCALE)
      top == Mul(h, InitTop)
      X == [k \in Indices |-> Add(startX, (k % cols) * spacing)]
      Y == [k \in Indices |-> Add(top, (k \div cols) * spacing)]
  IN [x |-> X, y |-> Y,
      vx |-> [k \in Indices |->
                IF variant = "part_000" THEN 0 ELSE JitterOf(jit, k).vx],
      vy |-> [k \in Indices |->
                IF variant = "part_000" THEN 0 ELSE JitterOf(jit, k).vy],
      prevX |-> X, prevY |-> Y]

\* ------------------------------------------------------------- PREDICT
\* the two sequential ifs of the boundary clamp on one coordinate
Clamp(v, m, bound) ==
  LET a == IF Lt(v, m) THEN m ELSE v
  IN IF Gt(a, Sub(bound, m)) THEN Sub(bound, m) ELSE a

\* the if / else-if form used inside the solver loop of part_001b
ClampElse(v, m, bound) ==
  IF Lt(v, m) THEN m
  ELSE IF Gt(v, Sub(bound, m)) THEN Sub(bound, m) ELSE v

\* prediction loop body without the pointer.down test: the impulse is
\* applied whenever the pointer position is within interactionRadius
PredictOne_AlwaysActive(k) ==
  LET gvx == Add(particles.vx[k], Mul(gravity.x, CONFIG.gravityScale))
      gvy == Add(particles.vy[k], Mul(gravity.y, CONFIG.gravityScale))
      dpr == IF variant = "part_000" THEN Div(width, window.innerWidth) ELSE SCALE
      iR == Mul(CONFIG.interactionRadius, dpr)
      dx == Sub(particles.x[k], Mul(pointer.x, dpr))
      dy == Sub(particles.y[k], Mul(pointer.y, dpr))
      d == Hypot(dx, dy)
      hit == Lt(d, iR)
      f == Mul(Sub(SCALE, Div(d, iR)), PointerForce)
      vx1 == IF hit THEN Add(gvx, Mul(Div(dx, d), f)) ELSE gvx
      vy1 == IF hit THEN Add(gvy, Mul(Div(dy, d), f)) ELSE gvy
      x1 == Add(particles.x[k], vx1)
      y1 == Add(particles.y[k], vy1)
      early == variant = "part_001b"
  IN [x |-> IF early THEN Clamp(x1, CONFIG.radius, width) ELSE x1,
      y |-> IF early THEN Clamp(y1, CONFIG.radius, height) ELSE y1,
      vx |-> vx1, vy |-> vy1,
      prevX |-> particles.x[k], prevY |-> particles.y[k]]

\* prediction loop body saving previousPosition after position += velocity
PredictOne_SaveAfter(k) ==
  LET gvx == Add(particles.vx[k], Mul(gravity.x, CONFIG.gravityScale))
      gvy == Add(particles.vy[k], Mul(gravity.y, CONFIG.gravityScale))
      dpr == IF variant = "part_000" THEN Div(width, window.innerWidth) ELSE SCALE
      iR == Mul(CONFIG.interactionRadius, dpr)
      dx == Sub(particles.x[k], Mul(pointer.x, dpr))
      dy == Sub(particles.y[k], Mul(pointer.y, dpr))
      d == Hypot(dx, dy)
      hit == pointer.down /\ Lt(d, iR)
      f == Mul(Sub(SCALE, Div(d, iR)), PointerForce)
      vx1 == IF hit THEN Add(gvx, Mul(Div(dx, d), f)) ELSE gvx
      vy1 == IF hit THEN Add(gvy, Mul(Div(dy, d), f)) ELSE gvy
      x1 == Add(particles.x[k], vx1)
      y1 == Add(particles.y[k], vy1)
      early == variant = "part_001b"
  IN [x |-> IF early THEN Clamp(x1, CONFIG.radius, width) ELSE x1,
      y |-> IF early THEN Clamp(y1, CONFIG.radius, height) ELSE y1,
      vx |-> vx1, vy |-> vy1,
      prevX |-> x1, prevY |-> y1]

\* one iteration of the first loop of updatePhysics for particle k
PredictOne(k) ==
  LET gvx == Add(particles.vx[k], Mul(gravity.x, CONFIG.gravityScale))
      gvy == Add(particles.vy[k], Mul(gravity.y, CONFIG.gravityScale))
      dpr == IF variant = "part_000" THEN Div(width, window.innerWidth) ELSE SCALE
      iR == Mul(CONFIG.interactionRadius, dpr)
      dx == Sub(particles.x[k], Mul(pointer.x, dpr))
      dy == Sub(particles.y[k], Mul(pointer.y, dpr))
      d == Hypot(dx, dy)
      hit == pointer.down /\ Lt(d, iR)
      f == Mul(Sub(SCALE, Div(d, iR)), PointerForce)
      vx1 == IF hit THEN Add(gvx, Mul(Div(dx, d), f)) ELSE gvx
      vy1 == IF hit THEN Add(gvy, Mul(Div(dy, d), f)) ELSE gvy
      x1 == Add(particles.x[k], vx1)
      y1 == Add(particles.y[k], vy1)
      early == variant = "part_001b"
  IN [x |-> IF early THEN Clamp(x1, CONFIG.radius, width) ELSE x1,
      y |-> IF early THEN Clamp(y1, CONFIG.radius, height) ELSE y1,
      vx |-> vx1, vy |-> vy1,
      prevX |-> particles.x[k], prevY |-> particles.y[k]]

PredictArrays ==
  [x |-> [k \in Indices |-> PredictOne(k).x],
   y |-> [k \in Indices |-> PredictOne(k).y],
   vx |-> [k \in Indices |-> PredictOne(k).vx],
   vy |-> [k \in Indices |-> PredictOne(k).vy],
   prevX |-> [k \in Indices |-> PredictOne(k).prevX],
   prevY |-> [k \in Indices |-> PredictOne(k).prevY]]

\* ---------------------------------------------------------- SpatialGrid
EmptyGrid == [key \in {} |-> << >>]

\* string conversion of a cell index, as a sequence of characters
DigitChars == <<"0", "1", "2", "3", "4", "5", "6", "7", "8", "9">>

RECURSIVE NatStr(_)
NatStr(n) ==
  IF n < 10 THEN <<DigitChars[n + 1]>>
  ELSE NatStr(n \div 10) \o <<DigitChars[(n % 10) + 1]>>

NumStr(n) ==
  IF n = NaN THEN <<"N", "a", "N">>
  ELSE IF n < 0 THEN <<"-">> \o NatStr(-n)
  ELSE NatStr(n)

\* gx + "," + gy
CellKey(gx, gy) == NumStr(gx) \o <<",">> \o NumStr(gy)

\* cell index by truncation toward zero, as (x / GRID_SIZE) | 0 would give
getGridKey_Trunc(x, y) ==
  CellKey(IF x = NaN THEN NaN ELSE Quot(x, GRID_SIZE),
          IF y = NaN THEN NaN ELSE Quot(y, GRID_SIZE))

\* Math.floor(x/GRID_SIZE) + "," + Math.floor(y/GRID_SIZE)
getGridKey(x, y) == CellKey(FloorDiv(x, GRID_SIZE), FloorDiv(y, GRID_SIZE))

\* if(!grid[key]) grid[key]=[]; grid[key].push(k)
GridPush(g, key, k) ==
  IF key \in DOMAIN g THEN [g EXCEPT ![key] = Append(@, k)]
  ELSE g @@ (key :> <<k>>)

RECURSIVE BuildGridLoop(_, _)
BuildGridLoop(g, k) ==
  IF k >= particleCount THEN g
  ELSE BuildGridLoop(GridPush(g, getGridKey(particles.x[k], particles.y[k]), k), k + 1)

\* the keys of the 3x3 block around cell (gx, gy) in loop order
BlockKeys(gx, gy) ==
  IF gx = NaN \/ gy = NaN THEN << >>
  ELSE << CellKey(gx - 1, gy - 1), CellKey(gx - 1, gy), CellKey(gx - 1, gy + 1),
          CellKey(gx, gy - 1), CellKey(gx, gy), CellKey(gx, gy + 1),
          CellKey(gx + 1, gy - 1), CellKey(gx + 1, gy), CellKey(gx + 1, gy + 1) >>

RECURSIVE CellsConcat(_, _)
CellsConcat(g, keys) ==
  IF keys = << >> THEN << >>
  ELSE (IF Head(keys) \in DOMAIN g THEN g[Head(keys)] ELSE << >>)
       \o CellsConcat(g, Tail(keys))

\* the particle indices the sweep visits for particle k (self included)
Candidates(k) ==
  CellsConcat(grid, BlockKeys(FloorDiv(particles.x[k], GRID_SIZE),
                              FloorDiv(particles.y[k], GRID_SIZE)))

\* ---------------------------------------------------- RelaxationSolver
EPS2 == 1000

\* cutoff tested per axis instead of on the squared distance
WithinCutoff_Box(dx, dy) ==
  /\ dx # NaN /\ dy # NaN
  /\ Abs(dx) < GRID_SIZE /\ Abs(dy) < GRID_SIZE

\* d2 < GRID_SIZE*GRID_SIZE
WithinCutoff(dx, dy) ==
  /\ dx # NaN /\ dy # NaN
  /\ Abs(dx) < GRID_SIZE /\ Abs(dy) < GRID_SIZE
  /\ dx * dx + dy * dy < GRID_SIZE * GRID_SIZE

\* neighbour filter without the epsilon test
AboveEpsilon_None(dx, dy) == TRUE

\* d2 > 0.001
AboveEpsilon(dx, dy) == dx * dx + dy * dy > EPS2

\* the filter of the neighbour search
IsNeighbor(k, j) ==
  LET dx == Sub(particles.x[j], particles.x[k])
      dy == Sub(particles.y[j], particles.y[k])
  IN j # k /\ WithinCutoff(dx, dy) /\ AboveEpsilon(dx, dy)

NeighborRec(k, j) ==
  LET dx == Sub(particles.x[j], particles.x[k])
      dy == Sub(particles.y[j], particles.y[k])
  IN [id |-> j, d |-> Hypot(dx, dy), dx |-> dx, dy |-> dy]

RECURSIVE NeighborsFrom(_, _)
NeighborsFrom(k, cand) ==
  IF cand = << >> THEN << >>
  ELSE (IF IsNeighbor(k, Head(cand)) THEN <<NeighborRec(k, Head(cand))>> ELSE << >>)
       \o NeighborsFrom(k, Tail(cand))

neighbors(k) == NeighborsFrom(k, Candidates(k))

Closeness(n) == Sub(SCALE, Div(n.d, GRID_SIZE))

RECURSIVE Density(_)
Density(ns) ==
  IF ns = << >> THEN 0
  ELSE Add(Mul(Closeness(Head(ns)), Closeness(Head(ns))), Density(Tail(ns)))

RECURSIVE NearDensity(_)
NearDensity(ns) ==
  IF ns = << >> THEN 0
  ELSE Add(Mul(Mul(Closeness(Head(ns)), Closeness(Head(ns))), Closeness(Head(ns))),
           NearDensity(Tail(ns)))

\* pressure clamped to be non-negative: Math.max(0, ...)
Pressure_Clamped(ns) ==
  LET P == Mul(CONFIG.stiffness, Sub(Density(ns), CONFIG.restDensity))
  IN IF P = NaN THEN NaN ELSE IF P < 0 THEN 0 ELSE P

Pressure(ns) == Mul(CONFIG.stiffness, Sub(Density(ns), CONFIG.restDensity))
NearPressure(ns) == Mul(CONFIG.stiffnessNear, NearDensity(ns))

\* the displacement (ux, uy) given to neighbour n
Displacement(n, P, PNear) ==
  LET q == Closeness(n)
      D == Mul(SCALE \div 2, Add(Mul(P, q), Mul(PNear, Mul(q, q))))
  IN [id |-> n.id, ux |-> Mul(Div(n.dx, n.d), D), uy |-> Mul(Div(n.dy, n.d), D)]

RECURSIVE Displacements(_, _, _)
Displacements(ns, P, PNear) ==
  IF ns = << >> THEN << >>
  ELSE <<Displacement(Head(ns), P, PNear)>> \o Displacements(Tail(ns), P, PNear)

RECURSIVE SumUx(_)
SumUx(ds) == IF ds = << >> THEN 0 ELSE Add(Head(ds).ux, SumUx(Tail(ds)))
RECURSIVE SumUy(_)
SumUy(ds) == IF ds = << >> THEN 0 ELSE Add(Head(ds).uy, SumUy(Tail(ds)))

\* the iteration without the reaction on particle k itself: the neighbours
\* are displaced, particles.x[k] += dx is left out
RelaxOne_NoReaction(k) ==
  LET ns == neighbors(k)
      ds == Displacements(ns, Pressure(ns), NearPressure(ns))
      of(j) == CHOOSE d \in {ds[n] : n \in 1 .. Len(ds)} : d.id = j
      ids == {ds[n].id : n \in 1 .. Len(ds)}
  IN [x |-> [j \in Indices |->
               IF j \in ids THEN Add(particles.x[j], of(j).ux)
               ELSE particles.x[j]],
      y |-> [j \in Indices |->
               IF j \in ids THEN Add(particles.y[j], of(j).uy)
               ELSE particles.y[j]]]

\* positions after one outer-loop iteration of the sweep for particle k
RelaxOne(k) ==
  LET ns == neighbors(k)
      ds == Displacements(ns, Pressure(ns), NearPressure(ns))
      of(j) == CHOOSE d \in {ds[n] : n \in 1 .. Len(ds)} : d.id = j
      ids == {ds[n].id : n \in 1 .. Len(ds)}
  IN [x |-> [j \in Indices |->
               IF j = k THEN Sub(particles.x[k], SumUx(ds))
               ELSE IF j \in ids THEN Add(particles.x[j], of(j).ux)
               ELSE particles.x[j]],
      y |-> [j \in Indices |->
               IF j = k THEN Sub(particles.y[k], SumUy(ds))
               ELSE IF j \in ids THEN Add(particles.y[j], of(j).uy)
               ELSE particles.y[j]]]

\* boundary loop with the physics radius as margin
ClampArrays_PhysRadius ==
  LET m == CONFIG.physRadius
      cl(v, bound) == IF variant = "part_001b" THEN ClampElse(v, m, bound)
                      ELSE Clamp(v, m, bound)
  IN [x |-> [k \in Indices |-> cl(particles.x[k], width)],
      y |-> [k \in Indices |-> cl(particles.y[k], height)]]

\* the boundary loop that closes a substep
ClampArrays ==
  LET m == CONFIG.radius
      cl(v, bound) == IF variant = "part_001b" THEN ClampElse(v, m, bound)
                      ELSE Clamp(v, m, bound)
  IN [x |-> [k \in Indices |-> cl(particles.x[k], width)],
      y |-> [k \in Indices |-> cl(particles.y[k], height)]]

\* ----------------------------------------------------------- RECONCILE
\* velocity accumulated onto the predicted velocity instead of replaced
ReconcileArrays_Accumulate ==
  [vx |-> [k \in Indices |->
             Add(particles.vx[k],
                 Mul(Sub(particles.x[k], particles.prevX[k]), CONFIG.damping))],
   vy |-> [k \in Indices |->
             Add(particles.vy[k],
                 Mul(Sub(particles.y[k], particles.prevY[k]), CONFIG.damping))]]

\* first particle handled before the loop test: element 0 is written even
\* when there is no particle (its operands are then undefined)
ReconcileArrays_FirstUnrolled ==
  [vx |-> [k \in Indices \cup {0} |->
             IF k \in Indices
             THEN Mul(Sub(particles.x[k], particles.prevX[k]), CONFIG.damping)
             ELSE NaN],
   vy |-> [k \in Indices \cup {0} |->
             IF k \in Indices
             THEN Mul(Sub(particles.y[k], particles.prevY[k]), CONFIG.damping)
             ELSE NaN]]

ReconcileArrays ==
  [vx |-> [k \in Indices |->
             Mul(Sub(particles.x[k], particles.prevX[k]), CONFIG.damping)],
   vy |-> [k \in Indices |->
             Mul(Sub(particles.y[k], particles.prevY[k]), CONFIG.damping)]]

\* pos[i*2] = particles.x[i]; pos[i*2+1] = particles.y[i]
PositionBuffer ==
  [n \in 0 .. (2 * particleCount - 1) |->
     IF n % 2 = 0 THEN particles.x[n \div 2] ELSE particles.y[n \div 2]]

\* ---------------------------------------------------------------- Init
ZeroArray == [k \in Indices |-> 0]

\* the unordered pairs of particles
Pairs == {p \in SUBSET Indices : Cardinality(p) = 2}

\* no pair displaced yet in this sweep
NoHits == [p \in Pairs |-> 0]

\* pairHits after the displacement loop of particle k ran over neighbors(k)
HitsAfter(k) ==
  LET ns == neighbors(k)
  IN [p \in Pairs |->
        pairHits[p] + Cardinality({n \in 1 .. Len(ns) : {k, ns[n].id} = p})]

Init ==
  /\ variant \in Variants
  /\ particleCount \in 0 .. MaxParticles
  /\ window \in [innerWidth : {100000}, innerHeight : {80000},
                 devicePixelRatio : IF variant = "part_000" THEN {1, 2} ELSE {1}]
  /\ width = NaN
  /\ height = NaN
  /\ particles = [x |-> ZeroArray, y |-> ZeroArray, vx |-> ZeroArray,
                  vy |-> ZeroArray, prevX |-> ZeroArray, prevY |-> ZeroArray]
  /\ grid = EmptyGrid
  /\ gravity = [x |-> 0, y |-> SCALE]
  /\ pointer = [x |-> -1000 * SCALE, y |-> -1000 * SCALE, down |-> FALSE]
  /\ isRunning = FALSE
  /\ rafQueue = 0
  /\ pc = "idle"
  /\ s = 0
  /\ i = 0
  /\ pos = << >>
  /\ frames = 0
  /\ events = 0
  /\ gridBuilds = 0
  /\ pairHits = NoHits
  /\ animationId = 0

\* an input event is dispatched only between tasks (run to completion)
CanDispatch == pc = "idle" /\ frames < MaxFrames /\ events < MaxEvents

\* ------------------------------------------------------ event handlers
\* canvas size set by initWebGL (resize() or the high-DPI computation)
CanvasSize ==
  IF variant = "part_000"
  THEN [w |-> window.innerWidth * window.devicePixelRatio,
        h |-> window.innerHeight * window.devicePixelRatio]
  ELSE [w |-> window.innerWidth, h |-> window.innerHeight]

\* click (or touchend) on start-btn; webgl = initWebGL() succeeded
StartClick ==
  /\ pc = "idle"
  /\ frames < MaxFrames
  /\ \E webgl \in BOOLEAN, jit \in Jitters :
       IF (StartGuarded /\ isRunning) \/ ~webgl
       THEN UNCHANGED vars
       ELSE /\ width' = CanvasSize.w
            /\ height' = CanvasSize.h
            /\ particles' = InitParticlesArrays(CanvasSize.w, CanvasSize.h, jit)
            /\ isRunning' = TRUE
            /\ pc' = "predict"
            /\ frames' = frames + 1
            /\ gridBuilds' = 0
            /\ UNCHANGED <<animationId, pairHits, variant, particleCount, window, grid, gravity,
                           pointer, rafQueue, s, i, pos, events>>

\* click on btn-reset
ResetClick ==
  /\ CanDispatch
  /\ \E jit \in Jitters : particles' = InitParticlesArrays(width, height, jit)
  /\ events' = events + 1
  /\ UNCHANGED <<animationId, pairHits, variant, particleCount, window, width, height, grid, gravity,
                 pointer, isRunning, rafQueue, pc, s, i, pos, frames, gridBuilds>>

\* touchmove / mousemove
PointerMove ==
  /\ CanDispatch
  /\ \E p \in PointerPositions :
       pointer' = [x |-> p[1], y |-> p[2], down |-> TRUE]
  /\ events' = events + 1
  /\ UNCHANGED <<animationId, pairHits, variant, particleCount, window, width, height, particles, grid,
                 gravity, isRunning, rafQueue, pc, s, i, pos, frames, gridBuilds>>

\* touchend / mouseup
PointerUp ==
  /\ CanDispatch
  /\ pointer' = [pointer EXCEPT !.down = FALSE]
  /\ events' = events + 1
  /\ UNCHANGED <<animationId, pairHits, variant, particleCount, window, width, height, particles, grid,
                 gravity, isRunning, rafQueue, pc, s, i, pos, frames, gridBuilds>>

\* devicemotion; the listener is added by the start handler
handleMotion ==
  /\ CanDispatch
  /\ isRunning
  /\ \E acc \in Accs :
       gravity' = [x |-> Mul(-acc[1], SCALE \div 2), y |-> Mul(acc[2], SCALE \div 2)]
  /\ events' = events + 1
  /\ UNCHANGED <<animationId, pairHits, variant, particleCount, window, width, height, particles, grid,
                 pointer, isRunning, rafQueue, pc, s, i, pos, frames, gridBuilds>>

\* the window is resized; resize() runs when initWebGL registered it
resize ==
  /\ CanDispatch
  /\ \E sz \in Sizes :
       /\ window' = [window EXCEPT !.innerWidth = sz[1], !.innerHeight = sz[2]]
       /\ IF HasResizeListener /\ isRunning
          THEN width' = sz[1] /\ height' = sz[2]
          ELSE UNCHANGED <<width, height>>
  /\ events' = events + 1
  /\ UNCHANGED <<animationId, pairHits, variant, particleCount, particles, grid, gravity, pointer,
                 isRunning, rafQueue, pc, s, i, pos, frames, gridBuilds>>

\* ------------------------------------------------------------- render
\* render() filling the position buffer before it calls updatePhysics
render_ReadsFirst ==
  /\ pc = "idle"
  /\ rafQueue > 0
  /\ frames < MaxFrames
  /\ rafQueue' = rafQueue - 1
  /\ pos' = [n \in 0 .. (2 * particleCount - 1) |->
               IF n % 2 = 0 THEN particles.x[n \div 2] ELSE particles.y[n \div 2]]
  /\ IF isRunning
     THEN pc' = "predict" /\ frames' = frames + 1 /\ gridBuilds' = 0
     ELSE UNCHANGED <<pc, frames, gridBuilds>>
  /\ UNCHANGED <<animationId, pairHits, variant, particleCount, window, width, height, particles, grid,
                 gravity, pointer, isRunning, s, i, events>>

\* the browser runs one pending requestAnimationFrame callback: render()
render ==
  /\ pc = "idle"
  /\ rafQueue > 0
  /\ frames < MaxFrames
  /\ rafQueue' = rafQueue - 1
  /\ IF isRunning
     THEN pc' = "predict" /\ frames' = frames + 1 /\ gridBuilds' = 0
     ELSE UNCHANGED <<pc, frames, gridBuilds>>
  /\ UNCHANGED <<animationId, pairHits, variant, particleCount, window, width, height, particles, grid,
                 gravity, pointer, isRunning, s, i, pos, events>>

\* updatePhysics, first loop (gravity, pointer impulse, prediction)
Predict ==
  /\ pc = "predict"
  /\ particles' = PredictArrays
  /\ s' = 0
  /\ pc' = "build"
  /\ UNCHANGED <<animationId, pairHits, variant, particleCount, window, width, height, grid, gravity,
                 pointer, isRunning, rafQueue, i, pos, frames, events, gridBuilds>>

\* where the substep loop goes after the boundary loop of substep s
AfterClamp ==
  IF s + 1 < CONFIG.subSteps
  THEN (IF variant # "part_001b" THEN "build"
        ELSE IF particleCount = 0 THEN "clamp" ELSE "relax")
  ELSE "reconcile"

\* the build loop without grid = {}: the cell lists of the previous
\* substep are kept and every index is pushed again
BuildGrid_NoClear ==
  /\ pc = "build"
  /\ grid' = BuildGridLoop(grid, 0)
  /\ gridBuilds' = gridBuilds + 1
  /\ i' = 0
  /\ pc' = IF particleCount = 0 THEN "clamp" ELSE "relax"
  /\ UNCHANGED <<animationId, pairHits, variant, particleCount, window, width, height, particles,
                 gravity, pointer, isRunning, rafQueue, s, pos, frames, events>>

\* grid = {} and the build loop
BuildGrid ==
  /\ pc = "build"
  /\ grid' = BuildGridLoop(EmptyGrid, 0)
  /\ gridBuilds' = gridBuilds + 1
  /\ i' = 0
  /\ pc' = IF particleCount = 0 THEN "clamp" ELSE "relax"
  /\ UNCHANGED <<animationId, pairHits, variant, particleCount, window, width, height, particles,
                 gravity, pointer, isRunning, rafQueue, s, pos, frames, events>>

\* one outer-loop iteration of the relaxation sweep, for particle i
RelaxParticle ==
  /\ pc = "relax"
  /\ i < particleCount
  /\ particles' = [particles EXCEPT !.x = RelaxOne(i).x, !.y = RelaxOne(i).y]
  /\ pairHits' = HitsAfter(i)
  /\ i' = i + 1
  /\ pc' = IF i + 1 < particleCount THEN "relax" ELSE "clamp"
  /\ UNCHANGED <<animationId, variant, particleCount, window, width, height, grid, gravity,
                 pointer, isRunning, rafQueue, s, pos, frames, events, gridBuilds>>

\* boundary loop that also applies gravity to the velocities, i.e. the
\* external force applied once per substep
ClampStep_Forces ==
  /\ pc = "clamp"
  /\ particles' = [particles EXCEPT
        !.x = ClampArrays.x, !.y = ClampArrays.y,
        !.vx = [k \in Indices |-> Add(particles.vx[k], Mul(gravity.x, CONFIG.gravityScale))],
        !.vy = [k \in Indices |-> Add(particles.vy[k], Mul(gravity.y, CONFIG.gravityScale))]]
  /\ s' = s + 1
  /\ i' = 0
  /\ pc' = AfterClamp
  /\ pairHits' = NoHits
  /\ UNCHANGED <<animationId, variant, particleCount, window, width, height, grid, gravity,
                 pointer, isRunning, rafQueue, pos, frames, events, gridBuilds>>

\* the boundary loop at the end of substep s
ClampStep ==
  /\ pc = "clamp"
  /\ particles' = [particles EXCEPT !.x = ClampArrays.x, !.y = ClampArrays.y]
  /\ s' = s + 1
  /\ i' = 0
  /\ pc' = AfterClamp
  /\ pairHits' = NoHits
  /\ UNCHANGED <<animationId, variant, particleCount, window, width, height, grid, gravity,
                 pointer, isRunning, rafQueue, pos, frames, events, gridBuilds>>

\* updatePhysics, last loop
Reconcile ==
  /\ pc = "reconcile"
  /\ particles' = [particles EXCEPT !.vx = ReconcileArrays.vx,
                                    !.vy = ReconcileArrays.vy]
  /\ pc' = "draw"
  /\ UNCHANGED <<animationId, pairHits, variant, particleCount, window, width, height, grid, gravity,
                 pointer, isRunning, rafQueue, s, i, pos, frames, events, gridBuilds>>

\* the rest of render(): fill pos, draw, requestAnimationFrame(render)
Draw ==
  /\ pc = "draw"
  /\ pos' = PositionBuffer
  /\ rafQueue' = rafQueue + 1
  /\ pc' = "idle"
  /\ UNCHANGED <<animationId, pairHits, variant, particleCount, window, width, height, particles, grid,
                 gravity, pointer, isRunning, s, i, frames, events, gridBuilds>>

Next ==
  \/ StartClick
  \/ ResetClick
  \/ PointerMove
  \/ PointerUp
  \/ handleMotion
  \/ resize
  \/ render
  \/ Predict
  \/ BuildGrid
  \/ RelaxParticle
  \/ ClampStep
  \/ Reconcile
  \/ Draw

Spec == Init /\ [][Next]_vars

\* ------------------------------------------- the relaxation phase alone
\* particles per configuration of the relaxation-phase specification
SweepParticles == 3

\* positions particles can have when the constraint loop starts
SweepPoints ==
  {<<35000, 45000>>, <<19999, 30000>>, <<40000, 30000>>, <<80000, 65000>>,
   <<35000, 45020>>, <<NaN, NaN>>}

\* predicted positions along one row of cells and outside the canvas (the
\* initial lattice reaches outside the canvas when the window is small)
EdgePoints ==
  {<<19800, 30000>>, <<35000, 30000>>, <<40000, 30000>>, <<-5000, 89000>>,
   <<NaN, NaN>>}

\* the prediction loop of part_001b ends with its own boundary clamp
AfterPredictClamp(v, bound) ==
  IF variant = "part_001b" THEN Clamp(v, CONFIG.radius, bound) ELSE v

\* updatePhysics has finished PREDICT (zero velocity, zero gravity) and
\* enters the constraint loop with the particles at points of the set points
SweepInitFrom(points) ==
  /\ variant \in Variants
  /\ particleCount \in 2 .. SweepParticles
  /\ window = [innerWidth |-> 100000, innerHeight |-> 80000, devicePixelRatio |-> 1]
  /\ width = 100000
  /\ height = 80000
  /\ \E pts \in [Indices -> points] :
       particles = [x |-> [k \in Indices |-> AfterPredictClamp(pts[k][1], width)],
                    y |-> [k \in Indices |-> AfterPredictClamp(pts[k][2], height)],
                    vx |-> ZeroArray, vy |-> ZeroArray,
                    prevX |-> [k \in Indices |-> pts[k][1]],
                    prevY |-> [k \in Indices |-> pts[k][2]]]
  /\ grid = EmptyGrid
  /\ gravity = [x |-> 0, y |-> 0]
  /\ pointer = [x |-> -1000 * SCALE, y |-> -1000 * SCALE, down |-> FALSE]
  /\ isRunning = TRUE
  /\ rafQueue = 0
  /\ pc = "build"
  /\ s = 0
  /\ i = 0
  /\ pos = << >>
  /\ frames = 1
  /\ events = 0
  /\ gridBuilds = 0
  /\ pairHits = NoHits
  /\ animationId = 0

SweepInit == SweepInitFrom(SweepPoints)

SweepNext ==
  \/ BuildGrid
  \/ RelaxParticle
  \/ ClampStep
  \/ Reconcile
  \/ Draw

SpecSweep == SweepInit /\ [][SweepNext]_vars

\* the relaxation phase from the positions of EdgePoints
EdgeInit == SweepInitFrom(EdgePoints)

SpecEdge == EdgeInit /\ [][SweepNext]_vars

\* ------------------------------------------------- initParticles alone
\* CONFIG.particleCount values of the layout specification
MaxLattice == 5

\* initWebGL has set the canvas size and the program runs; initParticles
\* overwrites all six arrays, whatever they held
LayoutInit ==
  /\ variant \in Variants
  /\ particleCount \in 0 .. MaxLattice
  /\ window \in [innerWidth : {100000}, innerHeight : {80000},
                 devicePixelRatio : IF variant = "part_000" THEN {1, 2} ELSE {1}]
  /\ width = CanvasSize.w
  /\ height = CanvasSize.h
  /\ particles = [x |-> ZeroArray, y |-> ZeroArray, vx |-> ZeroArray,
                  vy |-> ZeroArray, prevX |-> ZeroArray, prevY |-> ZeroArray]
  /\ grid = EmptyGrid
  /\ gravity = [x |-> 0, y |-> SCALE]
  /\ pointer = [x |-> -1000 * SCALE, y |-> -1000 * SCALE, down |-> FALSE]
  /\ isRunning = TRUE
  /\ rafQueue = 0
  /\ pc = "idle"
  /\ s = 0
  /\ i = 0
  /\ pos = << >>
  /\ frames = 0
  /\ events = 0
  /\ gridBuilds = 0
  /\ pairHits = NoHits
  /\ animationId = 0

LayoutNext ==
  \/ ResetClick
  \/ resize

SpecLayout == LayoutInit /\ [][LayoutNext]_vars

\* ============================================================ water.js
\* src/gravity-water/water.js, the canvas-2D program.  Its globals width,
\* height, gravity, pointer, particles and animationId are the variables of
\* the same names; `variant` is "water", particles is an array (index ->
\* object [x, y, vx, vy, radius]), pointer is [x, y, active], pos lists the
\* circles drawn in the current frame.  isRunning, grid, s, gridBuilds and
\* pairHits have no counterpart in water.js and never change.

\* CONFIG.particleCount (200 in the source) is abstracted to 0..WaterParticles
WaterParticles == 2

\* CONFIG of water.js
water_CONFIG ==
  [particleRadius |-> 15000, gravityScale |-> 500, damping |-> 960,
   interactionRadius |-> 100000, repulsionStrength |-> 2000]

\* outcomes of the five Math.random() calls of one Particle constructor,
\* each in [0, 1)
Draws ==
  { [rx |-> 50, ry |-> 500, rvx |-> 700, rvy |-> 500, rr |-> 500],
    [rx |-> 300, ry |-> 500, rvx |-> 500, rvy |-> 500, rr |-> 0],
    [rx |-> 310, ry |-> 520, rvx |-> 400, rvy |-> 600, rr |-> 999] }

\* new Particle() with the canvas size w x h
Particle(d, w, h) ==
  [x |-> Mul(d.rx, w), y |-> Mul(d.ry, h),
   vx |-> Mul(Sub(d.rvx, SCALE \div 2), 10 * SCALE),
   vy |-> Mul(Sub(d.rvy, SCALE \div 2), 10 * SCALE),
   radius |-> Mul(water_CONFIG.particleRadius, Add(800, Mul(d.rr, 400)))]

water_NoParticles == [k \in {} |-> 0]

\* particles.length
water_Length == Cardinality(DOMAIN particles)

\* Particle.update() up to the damping: gravity, pointer repulsion,
\* position += velocity, velocity *= damping
water_advance(p) ==
  LET gvx == Add(p.vx, Mul(gravity.x, water_CONFIG.gravityScale))
      gvy == Add(p.vy, Mul(gravity.y, water_CONFIG.gravityScale))
      dx == Sub(p.x, pointer.x)
      dy == Sub(p.y, pointer.y)
      dist == Hypot(dx, dy)
      hit == pointer.active /\ Lt(dist, water_CONFIG.interactionRadius)
      force == Div(Sub(water_CONFIG.interactionRadius, dist),
                   water_CONFIG.interactionRadius)
      \* Math.cos / Math.sin of Math.atan2(dy, dx); atan2(0, 0) is 0
      cos == IF dist = 0 THEN SCALE ELSE Div(dx, dist)
      sin == IF dist = 0 THEN 0 ELSE Div(dy, dist)
      vx1 == IF hit
             THEN Add(gvx, Mul(Mul(Mul(cos, force), water_CONFIG.repulsionStrength),
                               5 * SCALE))
             ELSE gvx
      vy1 == IF hit
             THEN Add(gvy, Mul(Mul(Mul(sin, force), water_CONFIG.repulsionStrength),
                               5 * SCALE))
             ELSE gvy
  IN [x |-> Add(p.x, vx1), y |-> Add(p.y, vy1),
      vx |-> Mul(vx1, water_CONFIG.damping), vy |-> Mul(vy1, water_CONFIG.damping),
      radius |-> p.radius]

\* const bounce = -0.7
bounce == -700

\* the screen-boundary part of Particle.update() on one axis: position v,
\* velocity u, for the bound (width or height)
water_wall(v, u, radius, bound) ==
  IF Lt(v, radius) THEN [v |-> radius, u |-> Mul(u, bounce)]
  ELSE IF Gt(v, Sub(bound, radius))
       THEN [v |-> Sub(bound, radius), u |-> Mul(u, bounce)]
       ELSE [v |-> v, u |-> u]

\* Particle.update()
update(p) ==
  LET a == water_advance(p)
      wx == water_wall(a.x, a.vx, p.radius, width)
      wy == water_wall(a.y, a.vy, p.radius, height)
  IN [x |-> wx.v, y |-> wy.v, vx |-> wx.u, vy |-> wy.u, radius |-> p.radius]

\* the body of the inner loop of animate() for the pair (a, b)
water_separate(ps, a, b) ==
  LET dx == Sub(ps[b].x, ps[a].x)
      dy == Sub(ps[b].y, ps[a].y)
      minDist == ps[a].radius + ps[b].radius
      dist == Hypot(dx, dy)
      \* distSq < minDist * minDist
      overlapping == /\ dx # NaN /\ dy # NaN
                     /\ Abs(dx) < minDist /\ Abs(dy) < minDist
                     /\ dist < minDist
      overlap == Sub(minDist, dist)
      sx == Mul(Mul(Div(dx, dist), overlap), SCALE \div 2)
      sy == Mul(Mul(Div(dy, dist), overlap), SCALE \div 2)
  IN IF overlapping
     THEN [ps EXCEPT ![a].x = Sub(@, sx), ![a].y = Sub(@, sy),
                     ![b].x = Add(@, sx), ![b].y = Add(@, sy)]
     ELSE ps

\* the inner loop of animate() for particle a, from j = b on
RECURSIVE water_collide(_, _, _)
water_collide(ps, a, b) ==
  IF b >= Cardinality(DOMAIN ps) THEN ps
  ELSE water_collide(water_separate(ps, a, b), a, b + 1)

\* init() calling animate() on every call
water_NeedsAnimate_Always == TRUE

\* init() calls animate() when no frame has been requested yet
water_NeedsAnimate == animationId = 0

WaterInit ==
  /\ variant = "water"
  /\ particleCount \in 0 .. WaterParticles
  /\ window = [innerWidth |-> 100000, innerHeight |-> 80000, devicePixelRatio |-> 1]
  /\ width = 100000
  /\ height = 80000
  /\ particles = water_NoParticles
  /\ grid = EmptyGrid
  /\ gravity = [x |-> 0, y |-> SCALE]
  /\ pointer = [x |-> -1000 * SCALE, y |-> -1000 * SCALE, active |-> FALSE]
  /\ isRunning = FALSE
  /\ rafQueue = 0
  /\ pc = "idle"
  /\ s = 0
  /\ i = 0
  /\ pos = << >>
  /\ frames = 0
  /\ events = 0
  /\ gridBuilds = 0
  /\ pairHits = << >>
  /\ animationId = 0

\* click on start-btn: startApp() and init(); init() runs onResize(), fills
\* particles and, without an animationId, enters animate()
startApp ==
  /\ pc = "idle"
  /\ frames < MaxFrames
  /\ water_NeedsAnimate \/ events < MaxEvents
  /\ width' = window.innerWidth
  /\ height' = window.innerHeight
  /\ \E ds \in [Indices -> Draws] :
       particles' = [k \in Indices |->
                       Particle(ds[k], window.innerWidth, window.innerHeight)]
  /\ IF water_NeedsAnimate
     THEN /\ pc' = "animate" /\ i' = 0 /\ pos' = << >> /\ frames' = frames + 1
          /\ UNCHANGED events
     ELSE /\ events' = events + 1
          /\ UNCHANGED <<pc, i, pos, frames>>
  /\ UNCHANGED <<animationId, pairHits, variant, particleCount, window, grid,
                 gravity, pointer, isRunning, rafQueue, s, gridBuilds>>

\* the browser runs the pending requestAnimationFrame callback: animate()
\* clears the canvas and starts its outer loop
animate ==
  /\ pc = "idle"
  /\ rafQueue > 0
  /\ frames < MaxFrames
  /\ rafQueue' = rafQueue - 1
  /\ pc' = "animate"
  /\ i' = 0
  /\ pos' = << >>
  /\ frames' = frames + 1
  /\ UNCHANGED <<animationId, pairHits, variant, particleCount, window, width,
                 height, particles, grid, gravity, pointer, isRunning, s,
                 events, gridBuilds>>

\* one iteration of the outer loop of animate(): the collisions of
\* particle i with the particles after it, p1.update(), p1.draw()
animateParticle ==
  /\ pc = "animate"
  /\ i < water_Length
  /\ LET ps == water_collide(particles, i, i + 1)
         p1 == update(ps[i])
     IN /\ particles' = [ps EXCEPT ![i] = p1]
        /\ pos' = Append(pos, [x |-> p1.x, y |-> p1.y, radius |-> p1.radius])
  /\ i' = i + 1
  /\ UNCHANGED <<animationId, pairHits, variant, particleCount, window, width,
                 height, grid, gravity, pointer, isRunning, rafQueue, pc, s,
                 frames, events, gridBuilds>>

\* animationId = requestAnimationFrame(animate), the last statement of animate()
animateRequest ==
  /\ pc = "animate"
  /\ i >= water_Length
  /\ animationId' = animationId + 1
  /\ rafQueue' = rafQueue + 1
  /\ pc' = "idle"
  /\ UNCHANGED <<pairHits, variant, particleCount, window, width, height,
                 particles, grid, gravity, pointer, isRunning, s, i, pos,
                 frames, events, gridBuilds>>

\* resize event: onResize() is registered when the script loads
onResize ==
  /\ CanDispatch
  /\ \E sz \in Sizes :
       /\ window' = [window EXCEPT !.innerWidth = sz[1], !.innerHeight = sz[2]]
       /\ width' = sz[1]
       /\ height' = sz[2]
  /\ events' = events + 1
  /\ UNCHANGED <<animationId, pairHits, variant, particleCount, particles, grid,
                 gravity, pointer, isRunning, rafQueue, pc, s, i, pos, frames,
                 gridBuilds>>

\* mousemove / touchmove
water_pointerMove ==
  /\ CanDispatch
  /\ \E p \in PointerPositions :
       pointer' = [x |-> p[1], y |-> p[2], active |-> TRUE]
  /\ events' = events + 1
  /\ UNCHANGED <<animationId, pairHits, variant, particleCount, window, width,
                 height, particles, grid, gravity, isRunning, rafQueue, pc, s,
                 i, pos, frames, gridBuilds>>

\* mousedown
water_pointerDown ==
  /\ CanDispatch
  /\ pointer' = [pointer EXCEPT !.active = TRUE]
  /\ events' = events + 1
  /\ UNCHANGED <<animationId, pairHits, variant, particleCount, window, width,
                 height, particles, grid, gravity, isRunning, rafQueue, pc, s,
                 i, pos, frames, gridBuilds>>

\* mouseup / touchend
water_pointerUp ==
  /\ CanDispatch
  /\ pointer' = [pointer EXCEPT !.active = FALSE]
  /\ events' = events + 1
  /\ UNCHANGED <<animationId, pairHits, variant, particleCount, window, width,
                 height, particles, grid, gravity, isRunning, rafQueue, pc, s,
                 i, pos, frames, gridBuilds>>

\* devicemotion (startApp registers the listener); hasAcc is whether the
\* event carries accelerationIncludingGravity
water_handleMotion ==
  /\ CanDispatch
  /\ animationId # 0
  /\ \E hasAcc \in BOOLEAN, acc \in Accs :
       gravity' = IF hasAcc THEN [x |-> -acc[1], y |-> acc[2]] ELSE gravity
  /\ events' = events + 1
  /\ UNCHANGED <<animationId, pairHits, variant, particleCount, window, width,
                 height, particles, grid, pointer, isRunning, rafQueue, pc, s,
                 i, pos, frames, gridBuilds>>

WaterNext ==
  \/ startApp
  \/ animate
  \/ animateParticle
  \/ animateRequest
  \/ onResize
  \/ water_pointerMove
  \/ water_pointerDown
  \/ water_pointerUp
  \/ water_handleMotion

SpecWater == WaterInit /\ [][WaterNext]_vars

\* ================================================================ claims

\* updatePhysics is between its first and its last statement
InPhysics == pc \in {"predict", "build", "relax", "clamp", "reconcile"}

\* the boundary loop of a substep has just finished
JustClamped ==
  /\ s >= 1
  /\ \/ pc = "build"
     \/ pc = "reconcile"
     \/ (pc = "relax" /\ variant = "part_001b" /\ i = 0)

\* distance between particles k and j below cellSize, from the positions
DistanceBelowCell(k, j) ==
  LET dx == Sub(particles.x[j], particles.x[k])
      dy == Sub(particles.y[j], particles.y[k])
  IN /\ dx # NaN /\ dy # NaN
     /\ Abs(dx) < GRID_SIZE /\ Abs(dy) < GRID_SIZE
     /\ Hypot(dx, dy) < GRID_SIZE

\* squared distance between k and j at most 0.001
Degenerate(k, j) ==
  LET dx == Sub(particles.x[j], particles.x[k])
      dy == Sub(particles.y[j], particles.y[k])
  IN /\ dx # NaN /\ dy # NaN
     /\ Abs(dx) < SCALE /\ Abs(dy) < SCALE
     /\ dx * dx + dy * dy <= EPS2

SeqToSet(q) == {q[n] : n \in 1 .. Len(q)}

\* C1: immediately after every relaxation substep every particle lies in
\* [physRadius, width - physRadius] x [physRadius, height - physRadius].
C1_BoundaryContainment ==
  JustClamped =>
    \A k \in Indices :
      /\ particles.x[k] # NaN /\ particles.y[k] # NaN
      /\ particles.x[k] >= CONFIG.physRadius
      /\ particles.x[k] <= width - CONFIG.physRadius
      /\ particles.y[k] >= CONFIG.physRadius
      /\ particles.y[k] <= height - CONFIG.physRadius

\* C2: when updatePhysics returns, velocity = (position - previousPosition)
\* * damping on both axes for every particle; the predicted velocity is replaced.
C2_VelocityReconstruction ==
  pc = "draw" =>
    \A k \in Indices :
      /\ particles.vx[k] = Mul(Sub(particles.x[k], particles.prevX[k]), CONFIG.damping)
      /\ particles.vy[k] = Mul(Sub(particles.y[k], particles.prevY[k]), CONFIG.damping)

C2_Witness ==
  /\ pc = "draw"
  /\ \E k \in Indices :
       /\ particles.vy[k] # NaN /\ particles.vy[k] # 0
       /\ particles.vx[k] # NaN /\ particles.vx[k] # 0

\* C3: no step changes the number of particles or the length of any of the
\* six particle arrays.
C3_ParticleCountImmutable ==
  [][/\ particleCount' = particleCount
     /\ DOMAIN particles'.x = Indices /\ DOMAIN particles'.y = Indices
     /\ DOMAIN particles'.vx = Indices /\ DOMAIN particles'.vy = Indices
     /\ DOMAIN particles'.prevX = Indices /\ DOMAIN particles'.prevY = Indices]_vars

\* a reset came after a frame
C3_Witness ==
  /\ pc = "idle" /\ frames >= 1 /\ events >= 1
  /\ particleCount = MaxParticles
  /\ particles.x = particles.prevX /\ particles.y = particles.prevY
  /\ pos # << >> /\ pos # PositionBuffer

\* C4: the renderer reads the positions only after updatePhysics has
\* finished, and no event handler changes gravity, pointer or bounds while
\* render()/updatePhysics is running.
C4_PhysicsThenRender ==
  [][/\ (pc # "idle" => UNCHANGED <<gravity, pointer, width, height>>)
     /\ (pos' # pos => pc = "draw" /\ pos' = PositionBuffer)]_vars

C4_Witness ==
  /\ pc = "idle" /\ frames = MaxFrames /\ particleCount > 0
  /\ gravity.x # 0
  /\ pos = PositionBuffer

\* render chains alive: pending callbacks plus the render() call in progress
ActiveChains == rafQueue + (IF pc = "idle" THEN 0 ELSE 1)

\* C5: at most one requestAnimationFrame chain is ever active, whatever the
\* start-button clicks.
C5_SingleRenderChain == ActiveChains <= 1

\* C6: the grid is rebuilt at the start of every substep: each sweep reads
\* a grid built in its own substep, subSteps builds per updatePhysics call.
C6_GridRebuiltEverySubstep ==
  /\ (pc = "relax" => gridBuilds = s + 1)
  /\ (pc = "draw" => gridBuilds = CONFIG.subSteps)

\* C7: when particle i is processed, every other particle whose current
\* distance from i is below cellSize is among the indices of the 3x3 block
\* of cells around the cell of i's current position.
C7_NeighborSuperset ==
  pc = "relax" =>
    \A j \in Indices \ {i} :
      DistanceBelowCell(i, j) => j \in SeqToSet(Candidates(i))

\* C8: a pair with squared distance <= 0.001 gets no displacement from the
\* iteration that processes it, and the iteration turns no defined
\* coordinate into an undefined one.
C8_DegeneracySkipped ==
  [][pc = "relax" =>
       /\ \A j \in Indices \ {i} :
            Degenerate(i, j) =>
              /\ particles'.x[j] = particles.x[j]
              /\ particles'.y[j] = particles.y[j]
       /\ (\A j \in Indices \ {i} : DistanceBelowCell(i, j) => Degenerate(i, j))
            => particles'.x[i] = particles.x[i] /\ particles'.y[i] = particles.y[i]
       /\ \A k \in Indices :
            /\ particles.x[k] # NaN => particles'.x[k] # NaN
            /\ particles.y[k] # NaN => particles'.y[k] # NaN]_vars

\* a coincident pair went through a whole sweep
C8_Witness ==
  /\ pc = "clamp"
  /\ \E k \in Indices : \E j \in Indices \ {k} :
       /\ particles.x[k] # NaN
       /\ particles.x[k] = particles.x[j] /\ particles.y[k] = particles.y[j]

Isolated(k) == \A j \in Indices \ {k} : ~DistanceBelowCell(k, j)

\* C9: an outer-loop iteration of the sweep leaves the position of every
\* isolated particle unchanged.
C9_IsolatedUnmoved ==
  [][pc = "relax" =>
       \A k \in Indices :
         Isolated(k) => /\ particles'.x[k] = particles.x[k]
                        /\ particles'.y[k] = particles.y[k]]_vars

\* a sweep is over in which one particle was alone and two others were not
C9_Witness ==
  /\ pc = "clamp"
  /\ \E k \in Indices : Isolated(k) /\ particles.x[k] # NaN
  /\ \E k \in Indices : ~Isolated(k)
  /\ particles.x # particles.prevX

\* C10: with particleCount = 0 no step of updatePhysics changes the particle
\* arrays, gravity, pointer or bounds.
C10_EmptyNoOp ==
  [][(particleCount = 0 /\ InPhysics) =>
       UNCHANGED <<particles, gravity, pointer, width, height>>]_vars

\* updatePhysics returned on an empty particle set
C10_Witness == particleCount = 0 /\ pc = "draw" /\ frames = MaxFrames

\* squared distance between particles 0 and 1 when the constraint loop began
\* (previousPosition still holds those positions), NaN if one is undefined
PairStartDist2 ==
  LET dx == Sub(particles.prevX[1], particles.prevX[0])
      dy == Sub(particles.prevY[1], particles.prevY[0])
  IN IF dx = NaN \/ dy = NaN \/ Abs(dx) >= GRID_SIZE \/ Abs(dy) >= GRID_SIZE
     THEN NaN ELSE dx * dx + dy * dy

\* squared distance between particles 0 and 1 now
PairDist2 ==
  LET dx == Sub(particles.x[1], particles.x[0])
      dy == Sub(particles.y[1], particles.y[0])
  IN IF dx = NaN \/ dy = NaN \/ Abs(dx) >= 2 * GRID_SIZE \/ Abs(dy) >= 2 * GRID_SIZE
     THEN NaN ELSE dx * dx + dy * dy

\* C11: two particles alone in the domain that start the constraint loop
\* closer than the cutoff, with squared distance above 0.001, are never
\* closer after a substep than they were at the start (they separate).
C11_DensityRepulsion ==
  (/\ particleCount = 2 /\ JustClamped
   /\ PairStartDist2 # NaN
   /\ PairStartDist2 > EPS2 /\ PairStartDist2 < GRID_SIZE * GRID_SIZE)
  => (PairDist2 # NaN /\ PairDist2 >= PairStartDist2)

\* devicePixelRatio as updatePhysics computes it (part_000 only)
PointerScale ==
  IF variant = "part_000" THEN Div(width, window.innerWidth) ELSE SCALE

\* vector from the pointer to particle k, its length, and the radius of
\* the pointer's influence, in canvas pixels
PointerDx(k) == Sub(particles.x[k], Mul(pointer.x, PointerScale))
PointerDy(k) == Sub(particles.y[k], Mul(pointer.y, PointerScale))
PointerDist(k) == Hypot(PointerDx(k), PointerDy(k))
PointerRadius == Mul(CONFIG.interactionRadius, PointerScale)

\* particle k is within interactionRadius of an active pointer
PointerHit(k) == pointer.down /\ Lt(PointerDist(k), PointerRadius)

\* strength of the impulse at the distance of particle k
PointerStrength(k) ==
  Mul(Sub(SCALE, Div(PointerDist(k), PointerRadius)), PointerForce)

\* velocity of particle k after gravity and one pointer impulse
ForcedVx(k) ==
  LET g == Add(particles.vx[k], Mul(gravity.x, CONFIG.gravityScale))
  IN IF PointerHit(k)
     THEN Add(g, Mul(Div(PointerDx(k), PointerDist(k)), PointerStrength(k)))
     ELSE g
ForcedVy(k) ==
  LET g == Add(particles.vy[k], Mul(gravity.y, CONFIG.gravityScale))
  IN IF PointerHit(k)
     THEN Add(g, Mul(Div(PointerDy(k), PointerDist(k)), PointerStrength(k)))
     ELSE g

\* C12: in one updatePhysics call gravity * gravityScale and the pointer
\* impulse are added to each velocity exactly once, by PREDICT; no step of
\* the substep loop changes a velocity.
C12_ForcesOncePerFrame ==
  [][/\ (pc = "predict" =>
           \A k \in Indices : /\ particles'.vx[k] = ForcedVx(k)
                               /\ particles'.vy[k] = ForcedVy(k))
     /\ (pc \in {"build", "relax", "clamp"} =>
           /\ particles'.vx = particles.vx
           /\ particles'.vy = particles.vy)]_vars

\* the substep loop of a frame with tilted gravity and an active pointer
\* is over and the velocities are still the predicted ones
C12_Witness ==
  /\ pc = "reconcile" /\ pointer.down /\ gravity.x # 0
  /\ \E k \in Indices :
       /\ particles.vx[k] # NaN /\ particles.vx[k] # 0
       /\ particles.x[k] # NaN
       /\ particles.vx[k] # Mul(Sub(particles.x[k], particles.prevX[k]), CONFIG.damping)

\* the impulse PREDICT gave particle k in this step: the velocity change
\* beyond gravity
ImpulseX(k) ==
  Sub(Sub(particles'.vx[k], particles.vx[k]), Mul(gravity.x, CONFIG.gravityScale))
ImpulseY(k) ==
  Sub(Sub(particles'.vy[k], particles.vy[k]), Mul(gravity.y, CONFIG.gravityScale))

\* C13: PREDICT gives every particle within interactionRadius of an active
\* pointer an impulse that is defined, points from the pointer to the
\* particle and has magnitude (1 - d/interactionRadius) * force, for every
\* distance d in [0, interactionRadius), d = 0 included (magnitude compared
\* up to the fixed-point rounding of 0.008).
C13_PointerImpulse ==
  [][pc = "predict" =>
       \A k \in Indices :
         (PointerHit(k) /\ particles.vx[k] # NaN /\ particles.vy[k] # NaN) =>
           /\ ImpulseX(k) # NaN /\ ImpulseY(k) # NaN
           /\ (PointerDx(k) > 0 => ImpulseX(k) >= 0)
           /\ (PointerDx(k) < 0 => ImpulseX(k) <= 0)
           /\ (PointerDy(k) > 0 => ImpulseY(k) >= 0)
           /\ (PointerDy(k) < 0 => ImpulseY(k) <= 0)
           /\ Abs(Hypot(ImpulseX(k), ImpulseY(k)) - PointerStrength(k))
                <= 8]_vars

\* floor(sqrt(particleCount))
LatticeCols ==
  CHOOSE c \in 0 .. particleCount :
    c * c <= particleCount /\ (c + 1) * (c + 1) > particleCount

ClampedTo(v, w, m, bound) ==
  (v # NaN /\ bound >= 2 * m) =>
    /\ (v >= m /\ v <= bound - m) => w = v
    /\ v < m => w = m
    /\ v > bound - m => w = bound - m

\* the boundary loop clamps both axes of every particle with margin m and
\* leaves velocity and previousPosition alone
BoundaryLoopClamps(m) ==
  /\ \A k \in Indices :
       /\ ClampedTo(particles.x[k], particles'.x[k], m, width)
       /\ ClampedTo(particles.y[k], particles'.y[k], m, height)
  /\ particles'.vx = particles.vx /\ particles'.vy = particles.vy
  /\ particles'.prevX = particles.prevX /\ particles'.prevY = particles.prevY

\* C15 as stated: the boundary clamp after each sweep leaves a coordinate
\* inside [physRadius, bound - physRadius] unchanged, sets one below to
\* physRadius and one above to bound - physRadius, and changes neither
\* velocity nor previousPosition.
C15_ClampPhysRadius ==
  [][pc = "clamp" => BoundaryLoopClamps(CONFIG.physRadius)]_vars

\* C15 amended: the same with the margin CONFIG.radius (the visual radius),
\* for bounds of at least 2 * radius.
C15_ClampRadius ==
  [][pc = "clamp" => BoundaryLoopClamps(CONFIG.radius)]_vars

\* a particle that was left of and below the box sits on both walls after
\* the boundary loop
C15_Witness ==
  /\ JustClamped
  /\ \E k \in Indices :
       /\ particles.prevX[k] # NaN
       /\ particles.prevX[k] < CONFIG.radius
       /\ particles.prevY[k] > height - CONFIG.radius
       /\ particles.x[k] = CONFIG.radius
       /\ particles.y[k] = height - CONFIG.radius

\* C16: PREDICT saves previousPosition before position += velocity (and
\* after the forces were added to the velocity), so previousPosition is the
\* position the particle had when updatePhysics began; no later step of the
\* call modifies it.
C16_PreviousPositionSaved ==
  [][/\ (pc = "predict" =>
           \A k \in Indices :
             /\ particles'.prevX[k] = particles.x[k]
             /\ particles'.prevY[k] = particles.y[k]
             /\ particles'.x[k] =
                  AfterPredictClamp(Add(particles.x[k], particles'.vx[k]), width)
             /\ particles'.y[k] =
                  AfterPredictClamp(Add(particles.y[k], particles'.vy[k]), height))
     /\ (pc \in {"build", "relax", "clamp", "reconcile"} =>
           /\ particles'.prevX = particles.prevX
           /\ particles'.prevY = particles.prevY)]_vars

\* the second updatePhysics call returned with a particle that moved on
\* both axes
C16_Witness ==
  /\ pc = "draw" /\ frames = MaxFrames
  /\ \E k \in Indices :
       /\ particles.x[k] # NaN /\ particles.y[k] # NaN
       /\ particles.prevX[k] # particles.x[k]
       /\ particles.prevY[k] # particles.y[k]

\* the grid build loop of the current substep has just finished
FreshGrid == pc = "relax" /\ i = 0 /\ gridBuilds = s + 1

\* floor(v / cellSize): the cell g with g * cellSize <= v < (g + 1) * cellSize
CellOf(v) ==
  IF v = NaN THEN NaN
  ELSE CHOOSE g \in -8 .. 16 : g * GRID_SIZE <= v /\ v < (g + 1) * GRID_SIZE

\* the cell coordinates the sweep files or looks up for particle k
CellsAround(k) ==
  LET gx == CellOf(particles.x[k])
      gy == CellOf(particles.y[k])
  IN IF gx = NaN \/ gy = NaN THEN {<<gx, gy>>}
     ELSE {<<gx + a, gy + b>> : a \in -1 .. 1, b \in -1 .. 1}

CellsInPlay == UNION {CellsAround(k) : k \in Indices}

\* C17: right after the grid build loop of a substep every particle index
\* is in exactly one cell list, the one keyed by the floor cell of its
\* current position (negative coordinates included), every list is in
\* ascending index order, and distinct cell coordinates have distinct keys.
C17_GridMembership ==
  FreshGrid =>
    /\ \A k \in Indices :
         /\ Cardinality({key \in DOMAIN grid : k \in SeqToSet(grid[key])}) = 1
         /\ LET key == CellKey(CellOf(particles.x[k]), CellOf(particles.y[k]))
            IN key \in DOMAIN grid /\ k \in SeqToSet(grid[key])
    /\ \A key \in DOMAIN grid :
         \A a \in 1 .. Len(grid[key]) : \A b \in 1 .. Len(grid[key]) :
           a < b => grid[key][a] < grid[key][b]
    /\ \A c \in CellsInPlay : \A d \in CellsInPlay :
         CellKey(c[1], c[2]) = CellKey(d[1], d[2]) => c = d

\* a fresh grid with a shared cell and a particle at a negative coordinate
C17_Witness ==
  /\ FreshGrid
  /\ \E key \in DOMAIN grid : Len(grid[key]) >= 2
  /\ \E k \in Indices : particles.x[k] # NaN /\ particles.x[k] < 0

\* C18 as stated: within one relaxation sweep an unordered pair of true
\* neighbors receives a pairwise displacement exactly once; the iteration
\* of the other particle does not displace the pair again in that sweep.
C18_PairOncePerSweep == \A p \in Pairs : pairHits[p] <= 1

\* C18 amended: a pair is displaced at most once by one outer-loop
\* iteration, only by the iterations of its own two particles, hence at
\* most twice in one sweep.
C18_PairOncePerIteration ==
  [][pc = "relax" =>
       \A p \in Pairs :
         /\ pairHits'[p] <= pairHits[p] + 1
         /\ pairHits'[p] # pairHits[p] => i \in p
         /\ pairHits'[p] <= 2]_vars

\* a sweep is over in which a pair was displaced from both sides and
\* another pair not at all
C18_Witness ==
  /\ pc = "clamp"
  /\ \E p \in Pairs : pairHits[p] = 2
  /\ \E p \in Pairs : pairHits[p] = 0

\* the true neighbors of particle k (j # k, 0.001 < d^2 < cellSize^2) among
\* the particles j, j + 1, ..., with their distance records
RECURSIVE TrueNeighborsFrom(_, _)
TrueNeighborsFrom(k, j) ==
  IF j >= particleCount THEN << >>
  ELSE (IF IsNeighbor(k, j) THEN <<NeighborRec(k, j)>> ELSE << >>)
       \o TrueNeighborsFrom(k, j + 1)

TrueNeighbors(k) == TrueNeighborsFrom(k, 0)

\* the pairwise displacements Delta_kj of all true neighbors of k
TrueDeltas(k) ==
  Displacements(TrueNeighbors(k), Pressure(TrueNeighbors(k)),
                NearPressure(TrueNeighbors(k)))

\* Delta_kj, zero for a particle that is not a true neighbor of k
DeltaOf(k, j) ==
  LET ds == TrueDeltas(k)
      hit == {n \in 1 .. Len(ds) : ds[n].id = j}
  IN IF hit = {} THEN [ux |-> 0, uy |-> 0]
     ELSE [ux |-> ds[CHOOSE n \in hit : TRUE].ux,
           uy |-> ds[CHOOSE n \in hit : TRUE].uy]

\* C19: the outer-loop iteration for particle i adds +Delta_ij to the
\* position of each true neighbor j and -(sum of Delta_ij) to the position
\* of i, changes the position of no other particle, and changes no
\* velocity or previousPosition.
C19_CorrectionFrame ==
  [][pc = "relax" =>
       /\ \A j \in Indices \ {i} :
            /\ particles'.x[j] = Add(particles.x[j], DeltaOf(i, j).ux)
            /\ particles'.y[j] = Add(particles.y[j], DeltaOf(i, j).uy)
       /\ particles'.x[i] = Sub(particles.x[i], SumUx(TrueDeltas(i)))
       /\ particles'.y[i] = Sub(particles.y[i], SumUy(TrueDeltas(i)))
       /\ particles'.vx = particles.vx /\ particles'.vy = particles.vy
       /\ particles'.prevX = particles.prevX
       /\ particles'.prevY = particles.prevY]_vars

\* P*q + P_near*q^2 for neighbor record n of a particle with neighbors ns
PressureTerm(n, ns) ==
  Add(Mul(Pressure(ns), Closeness(n)),
      Mul(NearPressure(ns), Mul(Closeness(n), Closeness(n))))

\* how far the step moves particle j along the direction from i to j
\* (negative: toward i)
MoveAlong(n) ==
  (particles'.x[n.id] - particles.x[n.id]) * n.dx
    + (particles'.y[n.id] - particles.y[n.id]) * n.dy

\* C20: pressure is never clamped to be non-negative: for a particle whose
\* density is below restDensity, P = stiffness * (rho - restDensity) is
\* strictly negative and enters the displacement, so a neighbor j with
\* P*q + P_near*q^2 < 0 is moved toward i.
C20_NegativePressure ==
  [][pc = "relax" =>
       LET ns == neighbors(i)
       IN (ns # << >> /\ Density(ns) < CONFIG.restDensity) =>
            /\ Pressure(ns) < 0
            /\ Abs(Pressure(ns) * SCALE
                     - CONFIG.stiffness * (Density(ns) - CONFIG.restDensity)) < SCALE
            /\ \A n \in 1 .. Len(ns) :
                 /\ PressureTerm(ns[n], ns) < 0 => MoveAlong(ns[n]) <= 0
                 /\ PressureTerm(ns[n], ns) <= -4 => MoveAlong(ns[n]) < 0]_vars

\* the iteration of particle 0 has pulled particle 1 toward it: the two are
\* closer than when the constraint loop began
C20_Witness ==
  /\ pc = "relax" /\ s = 0 /\ i = 1
  /\ PairStartDist2 # NaN /\ PairDist2 # NaN
  /\ PairStartDist2 < GRID_SIZE * GRID_SIZE
  /\ PairDist2 < PairStartDist2

\* q^e for neighbor record n, q = 1 - d/cellSize
RECURSIVE ClosenessPow(_, _)
ClosenessPow(n, e) ==
  IF e = 1 THEN Closeness(n) ELSE Mul(ClosenessPow(n, e - 1), Closeness(n))

\* sum of q^e over the neighbor records ns
RECURSIVE SumClosenessPow(_, _)
SumClosenessPow(ns, e) ==
  IF ns = << >> THEN 0
  ELSE Add(ClosenessPow(Head(ns), e), SumClosenessPow(Tail(ns), e))

\* 0.5 * (P*q + P_near*q^2) for record n of the neighbor records ns, with
\* rho = sum q^2, rho_near = sum q^3, P = stiffness * (rho - restDensity),
\* P_near = stiffnessNear * rho_near
DoubleDensityD(n, ns) ==
  LET P == Mul(CONFIG.stiffness, Sub(SumClosenessPow(ns, 2), CONFIG.restDensity))
      PNear == Mul(CONFIG.stiffnessNear, SumClosenessPow(ns, 3))
  IN Mul(SCALE \div 2, Add(Mul(P, Closeness(n)), Mul(PNear, ClosenessPow(n, 2))))

\* every particle of the records ns is moved in this step by
\* DoubleDensityD times the unit vector from i, distances taken before the step
MovedByDoubleDensity(ns) ==
  \A n \in 1 .. Len(ns) :
    /\ particles'.x[ns[n].id] =
         Add(particles.x[ns[n].id],
             Mul(Div(ns[n].dx, ns[n].d), DoubleDensityD(ns[n], ns)))
    /\ particles'.y[ns[n].id] =
         Add(particles.y[ns[n].id],
             Mul(Div(ns[n].dy, ns[n].d), DoubleDensityD(ns[n], ns)))

\* C21: for particle i with true-neighbor set N (j # i, 0.001 < d^2 <
\* cellSize^2) the displacement applied to each neighbor j is
\* 0.5 * (P*q_j + P_near*q_j^2) times the unit vector from i to j, with
\* q_j = 1 - d_j/cellSize, rho = sum q_j^2, rho_near = sum q_j^3,
\* P = stiffness * (rho - restDensity), P_near = stiffnessNear * rho_near,
\* all from the distances gathered before the iteration displaces anything.
C21_DoubleDensity ==
  [][pc = "relax" => MovedByDoubleDensity(TrueNeighbors(i))]_vars

\* C22: while pointer.down is false the result of PREDICT is given by the
\* particle state, gravity and the bounds alone (velocity += gravity *
\* gravityScale, previousPosition = position, position += velocity), the
\* same for every pointer position; no later step of updatePhysics reads or
\* writes the pointer.
C22_InactivePointer ==
  [][/\ (pc = "predict" /\ ~pointer.down) =>
          \A k \in Indices :
            /\ particles'.vx[k] =
                 Add(particles.vx[k], Mul(gravity.x, CONFIG.gravityScale))
            /\ particles'.vy[k] =
                 Add(particles.vy[k], Mul(gravity.y, CONFIG.gravityScale))
            /\ particles'.prevX[k] = particles.x[k]
            /\ particles'.prevY[k] = particles.y[k]
            /\ particles'.x[k] =
                 AfterPredictClamp(Add(particles.x[k], particles'.vx[k]), width)
            /\ particles'.y[k] =
                 AfterPredictClamp(Add(particles.y[k], particles'.vy[k]), height)
     /\ InPhysics => pointer' = pointer]_vars

\* PREDICT ran with a released pointer resting within interactionRadius of
\* the position a particle had when the call began
C22_Witness ==
  /\ pc = "build" /\ ~pointer.down /\ pointer.x = 39000
  /\ \E k \in Indices :
       /\ particles.prevX[k] # NaN /\ particles.vy[k] # NaN /\ particles.vy[k] # 0
       /\ Lt(Hypot(Sub(particles.prevX[k], Mul(pointer.x, PointerScale)),
                   Sub(particles.prevY[k], Mul(pointer.y, PointerScale))),
             PointerRadius)

\* sum of the defined entries k, k + 1, ... of the coordinate array a
RECURSIVE SumDefinedFrom(_, _)
SumDefinedFrom(a, k) ==
  IF k >= particleCount THEN 0
  ELSE (IF a[k] = NaN THEN 0 ELSE a[k]) + SumDefinedFrom(a, k + 1)

SumDefined(a) == SumDefinedFrom(a, 0)

Undefined(a) == {k \in Indices : a[k] = NaN}

\* C23: every outer-loop iteration of the relaxation sweep leaves the sum
\* of all x coordinates and the sum of all y coordinates unchanged (an
\* undefined coordinate stays undefined and is left out of the sums), so a
\* whole sweep up to the boundary clamp conserves the centroid.
C23_CentroidConserved ==
  [][pc = "relax" =>
       /\ SumDefined(particles'.x) = SumDefined(particles.x)
       /\ SumDefined(particles'.y) = SumDefined(particles.y)
       /\ Undefined(particles'.x) = Undefined(particles.x)
       /\ Undefined(particles'.y) = Undefined(particles.y)]_vars

\* a sweep over three defined particles is over in which a pair was
\* displaced and a particle has left its starting column
C23_Witness ==
  /\ pc = "clamp" /\ s = 0 /\ particleCount = 3
  /\ Undefined(particles.x) = {} /\ Undefined(particles.y) = {}
  /\ \E p \in Pairs : pairHits[p] >= 1
  /\ \E k \in Indices :
       particles.x[k] # AfterPredictClamp(particles.prevX[k], width)

\* velocity and position of particle k are numbers
DefinedParticle(k) ==
  /\ particles.x[k] # NaN /\ particles.y[k] # NaN
  /\ particles.vx[k] # NaN /\ particles.vy[k] # NaN

\* C24: PREDICT never divides by a zero distance: for every pointer
\* position, one equal to a particle's position under an active pointer
\* included, a particle with defined velocity and position has defined
\* velocity and position after PREDICT.
C24_PredictDefined ==
  [][(pc = "predict" /\ width # NaN /\ height # NaN) =>
       \A k \in Indices :
         DefinedParticle(k) =>
           /\ particles'.x[k] # NaN /\ particles'.y[k] # NaN
           /\ particles'.vx[k] # NaN /\ particles'.vy[k] # NaN]_vars

\* the cell lists a grid build from the current positions would give
GridOfPositions == BuildGridLoop(EmptyGrid, 0)

\* C25: relaxation is applied in place: the iteration of particle i takes
\* its neighbor filter, distances and densities from the current positions,
\* which include the displacements of the iterations before it, while the
\* grid cells are those of the positions at the start of the substep and
\* stay so during the sweep.
C25_InPlaceRelaxation ==
  [][pc = "relax" =>
       /\ i = 0 => grid = GridOfPositions
       /\ grid' = grid
       /\ MovedByDoubleDensity(neighbors(i))]_vars

\* a resize between the start click and this frame changed the bounds
BoundsResized == isRunning /\ width = 64000 /\ height = 60000

\* C26: after a window resize changed width/height between two frames, the
\* positions the renderer reads in the next frame all lie within
\* [radius, width - radius] x [radius, height - radius] of the new bounds.
C26_ResizeSafety ==
  [][(pc = "draw" /\ BoundsResized) =>
       \A k \in Indices :
         /\ pos'[2 * k] # NaN /\ pos'[2 * k + 1] # NaN
         /\ pos'[2 * k] >= CONFIG.radius
         /\ pos'[2 * k] <= width - CONFIG.radius
         /\ pos'[2 * k + 1] >= CONFIG.radius
         /\ pos'[2 * k + 1] <= height - CONFIG.radius]_vars

\* the step is an iteration of the outer loop of animate() in water.js
InAnimateLoop == pc = "animate" /\ i < water_Length

\* the circle this step draws
Drawn == pos'[Len(pos')]

\* C27: in every animate() frame each particle is drawn at a position with
\* radius <= x <= width - radius and radius <= y <= height - radius (its
\* own radius), and a particle already updated in the frame is not
\* displaced again in that frame.
C27_DrawContainment ==
  [][InAnimateLoop =>
       /\ Drawn.x # NaN /\ Drawn.y # NaN
       /\ Drawn.radius <= Drawn.x /\ Drawn.x <= width - Drawn.radius
       /\ Drawn.radius <= Drawn.y /\ Drawn.y <= height - Drawn.radius
       /\ \A k \in 0 .. (i - 1) : particles'[k] = particles[k]]_vars

\* C28: the collision separation of animate() never divides by a zero
\* distance: for every pair of overlapping particles, two particles at
\* exactly the same position included, a particle with a defined position
\* has a defined position after the iteration.
C28_SeparationDefined ==
  [][InAnimateLoop =>
       \A k \in DOMAIN particles :
         (particles[k].x # NaN /\ particles[k].y # NaN) =>
           (particles'[k].x # NaN /\ particles'[k].y # NaN)]_vars

\* C29: for any number of start-button clicks at most one
\* requestAnimationFrame chain is active (a pending callback or the
\* animate() call in progress), and once init() has run the particles
\* array holds exactly CONFIG.particleCount particles.
C29_SingleAnimationLoop ==
  /\ ActiveChains <= 1
  /\ \/ (animationId = 0 /\ pc = "idle" /\ particles = water_NoParticles)
     \/ DOMAIN particles = Indices

\* a start click after the first frame has replaced the particles (one is
\* still where its constructor put it, closer to the wall than its radius)
\* and the one chain goes on
C29_Witness ==
  /\ pc = "idle" /\ animationId # 0 /\ rafQueue = 1 /\ events >= 1
  /\ particleCount = WaterParticles
  /\ \E k \in DOMAIN particles :
       particles[k].x # NaN /\ particles[k].x < particles[k].radius

\* particle i after the inner loop of this iteration and the first half of
\* its update(): position += velocity done, boundaries not yet applied
Advanced == water_advance(water_collide(particles, i, i + 1)[i])

\* C30: whenever Particle.update() clamps a particle onto a wall, the
\* velocity component normal to that wall is afterwards zero or points back
\* into the domain: vx >= 0 at the left wall, vx <= 0 at the right wall,
\* vy >= 0 at the top, vy <= 0 at the bottom.
C30_BounceInward ==
  [][InAnimateLoop =>
       /\ Lt(Advanced.x, Advanced.radius) => particles'[i].vx >= 0
       /\ Gt(Advanced.x, Sub(width, Advanced.radius)) =>
            (particles'[i].vx # NaN /\ particles'[i].vx <= 0)
       /\ Lt(Advanced.y, Advanced.radius) => particles'[i].vy >= 0
       /\ Gt(Advanced.y, Sub(height, Advanced.radius)) =>
            (particles'[i].vy # NaN /\ particles'[i].vy <= 0)]_vars

====
